---- MODULE Spec2Model ----
(***************************************************************************)
(* FindImuWorld.py: mean orientation of IMU nodes from quaternion samples, *)
(* roll-pitch-yaw extraction in two conventions, and the combined 3D plot. *)
(*                                                                         *)
(* Numbers.  Quaternions are integer 4-tuples <<w, x, y, z>>.  A rotation  *)
(* matrix is an exact rational matrix [num |-> 3x3 integers, den |-> d],   *)
(* d > 0, kept in lowest terms.  Angles are integers counting quarter      *)
(* turns (1 = pi/2), so that cos and sin are exact; the value 2 stands for *)
(* the half turn (numpy gives +pi or -pi depending on the sign of a zero). *)
(* arcsin and arctan2 are defined on the arguments whose result is a whole *)
(* number of quarter turns, and on nothing else.                           *)
(*                                                                         *)
(* Text.  File names, node names and column headers are sequences of       *)
(* one-character strings, so that glob matching, splitext, split, strip    *)
(* and int() are computed character by character.                          *)
(***************************************************************************)
EXTENDS Integers, Sequences, FiniteSets, TLC

VARIABLES
    \* ---- the run of main() ----
    pc,             \* position of main()
    disk,           \* the input directory: file name -> file content
    node_data,      \* ordered dict built by load_node_files: Seq of [name, df]
    idx,            \* loop position of compute_mean_heading_per_node
    mean_rotations, \* dict node name -> mean rotation matrix
    angles_data,    \* dict node name -> [extrinsic, intrinsic] (degrees)
    console,        \* sequence of report sections printed so far
    plots_entered,  \* plotting functions entered so far
    combined_nodes, \* node names drawn in the combined figure
    images,         \* image files written so far
    \* ---- the rotation conversions applied to one quaternion ----
    rpc, rq, rR, rExt, rInt, rRec,
    \* ---- compute_mean_rotation applied to one batch ----
    mpc, mqs, mR

mainVars == <<pc, disk, node_data, idx, mean_rotations, angles_data,
              console, plots_entered, combined_nodes, images>>
rotVars  == <<rpc, rq, rR, rExt, rInt, rRec>>
meanVars == <<mpc, mqs, mR>>
vars     == <<mainVars, rotVars, meanVars>>

None == "None"

-----------------------------------------------------------------------------
(* Integer helpers *)

Abs(n) == IF n < 0 THEN -n ELSE n

RECURSIVE GcdNat(_, _)
GcdNat(a, b) == IF b = 0 THEN a ELSE GcdNat(b, a % b)

Gcd(a, b) == GcdNat(Abs(a), Abs(b))

RECURSIVE GcdSeq(_)
GcdSeq(s) == IF s = <<>> THEN 0 ELSE Gcd(Head(s), GcdSeq(Tail(s)))

\* The integer square root of a perfect square; no value for any other number.
ISqrt(n) == CHOOSE r \in 0..n : r * r = n

-----------------------------------------------------------------------------
(* 3x3 matrices of rationals *)

I3num == << <<1, 0, 0>>, <<0, 1, 0>>, <<0, 0, 1>> >>

Flat(m) == m[1] \o m[2] \o m[3]

\* Lowest terms, positive denominator.
Reduce(m, d) ==
    LET g == Gcd(GcdSeq(Flat(m)), d)
    IN  [num |-> << << m[1][1] \div g, m[1][2] \div g, m[1][3] \div g >>,
                     << m[2][1] \div g, m[2][2] \div g, m[2][3] \div g >>,
                     << m[3][1] \div g, m[3][2] \div g, m[3][3] \div g >> >>,
         den |-> d \div g]

\* np.eye(3)
Eye3 == [num |-> I3num, den |-> 1]

\* R[i, j] with numpy's 0-based indices, as the numerator over R.den
At(R, i, j) == R.num[i + 1][j + 1]

MatMulRow(r, b) ==
    << r[1] * b[1][1] + r[2] * b[2][1] + r[3] * b[3][1],
       r[1] * b[1][2] + r[2] * b[2][2] + r[3] * b[3][2],
       r[1] * b[1][3] + r[2] * b[2][3] + r[3] * b[3][3] >>

MatMul(a, b) == << MatMulRow(a[1], b), MatMulRow(a[2], b), MatMulRow(a[3], b) >>

Transpose(a) ==
    << << a[1][1], a[2][1], a[3][1] >>,
       << a[1][2], a[2][2], a[3][2] >>,
       << a[1][3], a[2][3], a[3][3] >> >>

Det(a) ==
      a[1][1] * (a[2][2] * a[3][3] - a[2][3] * a[3][2])
    - a[1][2] * (a[2][1] * a[3][3] - a[2][3] * a[3][1])
    + a[1][3] * (a[2][1] * a[3][2] - a[2][2] * a[3][1])

Scale(a, k) ==
    << << k * a[1][1], k * a[1][2], k * a[1][3] >>,
       << k * a[2][1], k * a[2][2], k * a[2][3] >>,
       << k * a[3][1], k * a[3][2], k * a[3][3] >> >>

\* R^T R = I
IsOrthonormal(R) ==
    MatMul(Transpose(R.num), R.num) = Scale(I3num, R.den * R.den)

\* orthonormal with determinant +1
IsProperRotation(R) ==
    /\ R.den > 0
    /\ IsOrthonormal(R)
    /\ Det(R.num) = R.den * R.den * R.den

-----------------------------------------------------------------------------
(* Rotation conversion *)

Norm2(q) == q[1] * q[1] + q[2] * q[2] + q[3] * q[3] + q[4] * q[4]

\* The matrix of lines 30-34 after the division by norm of line 27:
\* 1 - 2(y^2 + z^2)/n^2 = (w^2 + x^2 - y^2 - z^2)/n^2, and so on; every
\* entry is an integer over n^2 = Norm2(q).  A non-zero integer quaternion
\* has norm >= 1, so "norm < 1e-12" is "q is zero".
quat_to_rotation_matrix(q) ==
    LET w == q[1]  x == q[2]  y == q[3]  z == q[4]
        n2 == Norm2(q)
    IN  IF n2 = 0 THEN Eye3
        ELSE Reduce(
            << << n2 - 2 * (y * y + z * z), 2 * (x * y - w * z), 2 * (x * z + w * y) >>,
               << 2 * (x * y + w * z), n2 - 2 * (x * x + z * z), 2 * (y * z - w * x) >>,
               << 2 * (x * z - w * y), 2 * (y * z + w * x), n2 - 2 * (x * x + y * y) >> >>,
            n2)

\* np.arcsin of the rational n/d, in quarter turns
Arcsin(n, d) ==
    CASE n = 0  -> 0
      [] n = d  -> 1
      [] n = -d -> -1

\* np.arctan2(y, x), in quarter turns; only the direction of (x, y) matters
Arctan2(y, x) ==
    CASE y = 0 /\ x > 0 -> 0
      [] y = 0 /\ x = 0 -> 0
      [] y > 0 /\ x = 0 -> 1
      [] y = 0 /\ x < 0 -> 2
      [] y < 0 /\ x = 0 -> -1

\* np.copysign(np.pi / 2, s)
CopysignQuarter(s) == IF s < 0 THEN -1 ELSE 1

\* np.cos, np.sin of k quarter turns
Cos(k) == CASE k % 4 = 0 -> 1 [] k % 4 = 1 -> 0 [] k % 4 = 2 -> -1 [] k % 4 = 3 -> 0
Sin(k) == CASE k % 4 = 0 -> 0 [] k % 4 = 1 -> 1 [] k % 4 = 2 -> 0 [] k % 4 = 3 -> -1

\* np.degrees
Degrees(k) == 90 * k

\* A slip: the yaw of the regular case taken from -R[1, 0].
rotation_matrix_to_rpy_extrinsic_yawsign(R) ==
    LET sin_pitch == -At(R, 2, 0)
    IN  IF Abs(sin_pitch) >= R.den
        THEN IF sin_pitch < 0
             THEN << 0, CopysignQuarter(sin_pitch), Arctan2(-At(R, 0, 1), At(R, 1, 1)) >>
             ELSE << 0, CopysignQuarter(sin_pitch), Arctan2(At(R, 0, 1), At(R, 1, 1)) >>
        ELSE << Arctan2(At(R, 2, 1), At(R, 2, 2)),
                Arcsin(sin_pitch, R.den),
                Arctan2(-At(R, 1, 0), At(R, 0, 0)) >>

rotation_matrix_to_rpy_extrinsic(R) ==
    LET sin_pitch == -At(R, 2, 0)
    IN  IF Abs(sin_pitch) >= R.den
        THEN IF sin_pitch < 0
             THEN << 0, CopysignQuarter(sin_pitch), Arctan2(-At(R, 0, 1), At(R, 1, 1)) >>
             ELSE << 0, CopysignQuarter(sin_pitch), Arctan2(At(R, 0, 1), At(R, 1, 1)) >>
        ELSE << Arctan2(At(R, 2, 1), At(R, 2, 2)),
                Arcsin(sin_pitch, R.den),
                Arctan2(At(R, 1, 0), At(R, 0, 0)) >>

\* A slip: the roll of the regular case taken from +R[2, 1], as in the
\* extrinsic formulas.
rotation_matrix_to_rpy_intrinsic_rollsign(R) ==
    LET sin_pitch == At(R, 2, 0)
    IN  IF Abs(sin_pitch) >= R.den
        THEN IF sin_pitch > 0
             THEN << 0, CopysignQuarter(sin_pitch), Arctan2(At(R, 0, 1), At(R, 1, 1)) >>
             ELSE << 0, CopysignQuarter(sin_pitch), Arctan2(-At(R, 0, 1), At(R, 1, 1)) >>
        ELSE << Arctan2(At(R, 2, 1), At(R, 2, 2)),
                Arcsin(sin_pitch, R.den),
                Arctan2(-At(R, 1, 0), At(R, 0, 0)) >>

rotation_matrix_to_rpy_intrinsic(R) ==
    LET sin_pitch == At(R, 2, 0)
    IN  IF Abs(sin_pitch) >= R.den
        THEN IF sin_pitch > 0
             THEN << 0, CopysignQuarter(sin_pitch), Arctan2(At(R, 0, 1), At(R, 1, 1)) >>
             ELSE << 0, CopysignQuarter(sin_pitch), Arctan2(-At(R, 0, 1), At(R, 1, 1)) >>
        ELSE << Arctan2(-At(R, 2, 1), At(R, 2, 2)),
                Arcsin(sin_pitch, R.den),
                Arctan2(-At(R, 1, 0), At(R, 0, 0)) >>

\* The elementary matrices of lines 114-132
RxOf(roll)  == << <<1, 0, 0>>, <<0, Cos(roll), -Sin(roll)>>, <<0, Sin(roll), Cos(roll)>> >>
RyOf(pitch) == << <<Cos(pitch), 0, Sin(pitch)>>, <<0, 1, 0>>, <<-Sin(pitch), 0, Cos(pitch)>> >>
RzOf(yaw)   == << <<Cos(yaw), -Sin(yaw), 0>>, <<Sin(yaw), Cos(yaw), 0>>, <<0, 0, 1>> >>

\* R = Rz @ Ry @ Rx
rpy_to_rotation_matrix(roll, pitch, yaw) ==
    Reduce(MatMul(MatMul(RzOf(yaw), RyOf(pitch)), RxOf(roll)), 1)

-----------------------------------------------------------------------------
(* Mean rotation estimator *)

Dot(a, b) == a[1] * b[1] + a[2] * b[2] + a[3] * b[3] + a[4] * b[4]

NegQ(q) == << -q[1], -q[2], -q[3], -q[4] >>

ScaleQ(q, k) == << k * q[1], k * q[2], k * q[3], k * q[4] >>

AddQ(a, b) == << a[1] + b[1], a[2] + b[2], a[3] + b[3], a[4] + b[4] >>

ZeroQ == << 0, 0, 0, 0 >>

\* np.linalg.norm of an integer quaternion whose norm is an integer
NormQ(q) == ISqrt(Norm2(q))

\* A quaternion divided by its norm is the rational vector v / d.
\* Lines 157-159 and 161-163: divide by the norm only when it is > 0.
Normalized(q) ==
    IF NormQ(q) > 0 THEN [v |-> q, d |-> NormQ(q)] ELSE [v |-> q, d |-> 1]

\* Lines 160-166 for one sample: normalise, then flip the sign when the dot
\* product with the normalised first sample is negative (d > 0 on both
\* sides, so the sign of the dot product is that of the numerators).
AlignedSample(q, q0) ==
    LET u == Normalized(q)
    IN  IF Dot(u.v, q0.v) < 0 THEN [v |-> NegQ(u.v), d |-> u.d] ELSE u

RECURSIVE LcmDen(_)
LcmDen(us) ==
    IF us = <<>> THEN 1
    ELSE LET r == LcmDen(Tail(us))
         IN  (Head(us).d * r) \div Gcd(Head(us).d, r)

RECURSIVE SumScaled(_, _)
SumScaled(us, D) ==
    IF us = <<>> THEN ZeroQ
    ELSE AddQ(ScaleQ(Head(us).v, D \div Head(us).d), SumScaled(Tail(us), D))

\* U @ Vt of np.linalg.svd(R): the orthonormal polar factor of R.  For an
\* orthonormal R every singular value is 1 and U @ Vt is R itself; the
\* factor of any other matrix is not a rational matrix and has no value here.
SvdPolar(R) == CASE IsOrthonormal(R) -> R

\* Lines 180-182, with the factorisation U = R_ortho, Vt = I of an
\* orthonormal matrix: negate the last column.
FlipLastColumn(R) ==
    [num |-> << << R.num[1][1], R.num[1][2], -R.num[1][3] >>,
                << R.num[2][1], R.num[2][2], -R.num[2][3] >>,
                << R.num[3][1], R.num[3][2], -R.num[3][3] >> >>,
     den |-> R.den]

Orthonormalize(R) ==
    LET R_ortho == SvdPolar(R)
    IN  IF Det(R_ortho.num) < 0 THEN FlipLastColumn(R_ortho) ELSE R_ortho

\* Lines 156-166: the samples, each normalised and sign-aligned to the first.
RECURSIVE AlignAll(_, _)
AlignAll(quaternions, q0) ==
    IF quaternions = <<>> THEN <<>>
    ELSE <<AlignedSample(Head(quaternions), q0)>> \o AlignAll(Tail(quaternions), q0)

AlignedSamples(quaternions) == AlignAll(quaternions, Normalized(quaternions[1]))

RECURSIVE NormalizeAll(_)
NormalizeAll(quaternions) ==
    IF quaternions = <<>> THEN <<>>
    ELSE <<Normalized(Head(quaternions))>> \o NormalizeAll(Tail(quaternions))

\* Line 169: the mean of the aligned samples is S / (D * N), with D their
\* common denominator, N their number and S this integer vector.
MeanNumerator(qs) == SumScaled(qs, LcmDen(qs))

\* Lines 170-175 on S.  Within the bounds of the batches a non-zero mean has
\* norm >= 1 / (D * N), far above 1e-12, so "n_mean < 1e-12" is "S is zero".
\* quat_to_rotation_matrix divides by the norm of its argument, so it is
\* given S, a positive multiple of q_mean / n_mean.
MeanMatrix(S) == IF Norm2(S) = 0 THEN Eye3 ELSE quat_to_rotation_matrix(S)

\* A slip: the sign alignment of lines 165-166 left out.
compute_mean_rotation_noalign(quaternions) ==
    IF Len(quaternions) = 0 THEN Eye3
    ELSE Orthonormalize(MeanMatrix(MeanNumerator(NormalizeAll(quaternions))))

\* A slip: np.zeros((3, 3)) returned for the empty batch.
compute_mean_rotation_emptyzeros(quaternions) ==
    IF Len(quaternions) = 0
    THEN [num |-> Scale(I3num, 0), den |-> 1]
    ELSE Orthonormalize(MeanMatrix(MeanNumerator(AlignedSamples(quaternions))))

compute_mean_rotation(quaternions) ==
    IF Len(quaternions) = 0 THEN Eye3
    ELSE Orthonormalize(MeanMatrix(MeanNumerator(AlignedSamples(quaternions))))

-----------------------------------------------------------------------------
(* Text: Python's str operations on sequences of characters *)

\* The characters in use, in code-point order
CharOrder ==
    << " ", "+", "-", ".", "0", "1", "2", "3", "4", "5", "6", "7", "8", "9",
       "Q", "X", "_", "a", "c", "d", "e", "n", "o", "q", "s", "t", "v", "w",
       "x", "y", "z" >>

Ord(c) == CHOOSE i \in 1..Len(CharOrder) : CharOrder[i] = c

Digits == << "0", "1", "2", "3", "4", "5", "6", "7", "8", "9" >>

IsDigit(c) == \E i \in 1..10 : Digits[i] = c

DigitVal(c) == (CHOOSE i \in 1..10 : Digits[i] = c) - 1

\* str.startswith, str.endswith
StartsWith(s, p) == Len(s) >= Len(p) /\ SubSeq(s, 1, Len(p)) = p
EndsWith(s, p) == Len(s) >= Len(p) /\ SubSeq(s, Len(s) - Len(p) + 1, Len(s)) = p

\* a < b for str
RECURSIVE StrLess(_, _)
StrLess(a, b) ==
    IF b = <<>> THEN FALSE
    ELSE IF a = <<>> THEN TRUE
    ELSE IF Head(a) = Head(b) THEN StrLess(Tail(a), Tail(b))
    ELSE Ord(Head(a)) < Ord(Head(b))

\* sorted() of a set of distinct strings
RECURSIVE Sorted(_)
Sorted(S) ==
    IF S = {} THEN <<>>
    ELSE LET m == CHOOSE x \in S : \A y \in S \ {x} : StrLess(x, y)
         IN  <<m>> \o Sorted(S \ {m})

\* str.strip(): leading and trailing whitespace removed
RECURSIVE LStrip(_)
LStrip(s) == IF s # <<>> /\ Head(s) = " " THEN LStrip(Tail(s)) ELSE s

RECURSIVE RStrip(_)
RStrip(s) ==
    IF s # <<>> /\ s[Len(s)] = " " THEN RStrip(SubSeq(s, 1, Len(s) - 1)) ELSE s

Strip(s) == RStrip(LStrip(s))

\* s.split(sep)[0]: the text before the first sep, all of s when there is none
RECURSIVE SplitFirst(_, _)
SplitFirst(s, sep) ==
    IF s = <<>> \/ Head(s) = sep THEN <<>>
    ELSE <<Head(s)>> \o SplitFirst(Tail(s), sep)

\* os.path.splitext(basename)[0]: cut at the last dot, unless that dot is
\* one of the leading dots of the name
SplitextRoot(s) ==
    LET dots == { i \in 1..Len(s) : s[i] = "." }
    IN  IF dots = {} THEN s
        ELSE LET last == CHOOSE i \in dots : \A j \in dots : j <= i
             IN  IF \E j \in 1..(last - 1) : s[j] # "."
                 THEN SubSeq(s, 1, last - 1)
                 ELSE s

RECURSIVE DecimalValue(_)
DecimalValue(ds) ==
    IF ds = <<>> THEN 0
    ELSE 10 * DecimalValue(SubSeq(ds, 1, Len(ds) - 1)) + DigitVal(ds[Len(ds)])

\* int(s): surrounding whitespace ignored, an optional sign, then one or more
\* digits; anything else raises ValueError.  (Underscores between digits are
\* also accepted by int(); no caller passes a text with an underscore.)
ParseInt(s) ==
    LET t == Strip(s)
        signed == t # <<>> /\ Head(t) \in {"+", "-"}
        body == IF signed THEN Tail(t) ELSE t
    IN  IF body # <<>> /\ \A i \in 1..Len(body) : IsDigit(body[i])
        THEN [ok |-> TRUE,
              val |-> IF signed /\ Head(t) = "-" THEN -DecimalValue(body)
                      ELSE DecimalValue(body)]
        ELSE [ok |-> FALSE, val |-> 0]

S_node == << "n", "o", "d", "e" >>
S_csv  == << ".", "c", "s", "v" >>
S_txt  == << ".", "t", "x", "t" >>

-----------------------------------------------------------------------------
(* The input directory *)

MaxFiles == 3

FilePool ==
    { S_node \o <<"2">> \o S_csv,
      S_node \o <<"3">> \o S_csv,
      S_node \o <<"0", "3">> \o S_csv,
      S_node \o <<"1", "0", "_", "1">> \o S_csv,
      S_node \o <<"1", "0", "_", "2">> \o S_csv,
      S_node \o <<"1", "2", "_", "2">> \o S_csv,
      S_node \o <<"1", "3">> \o S_csv,
      S_node \o <<"X">> \o S_csv,
      S_node \o <<"_", "4">> \o S_csv,
      S_node \o <<"5">> \o S_txt,
      <<"a">> \o S_node \o <<"6">> \o S_csv }

Col(a)    == << "q", a >>

\* A file with the four quaternion columns; the mean of its rows is the
\* quarter turn about X.
TblPlain ==
    [parses |-> TRUE,
     header |-> << Col("w"), Col("x"), Col("y"), Col("z") >>,
     rows   |-> << <<1, 0, 0, 0>>, <<0, 1, 0, 0>>, <<0, -2, 0, 0>> >>]

\* A file with padded headers, another column and another column order
\* (t, qx, qw, qz, qy); its rows are (1, 1, -1, 1) and its opposite.
TblPadded ==
    [parses |-> TRUE,
     header |-> << <<" ", "t">>, <<"q", "x", " ">>, <<" ", "q", "w">>,
                   Col("z"), <<" ", "q", "y", " ">> >>,
     rows   |-> << <<7, 1, 1, 1, -1>>, <<8, -1, -1, -1, 1>> >>]

\* A file whose fourth column is named QZ
TblMissing ==
    [parses |-> TRUE,
     header |-> << Col("w"), Col("x"), Col("y"), <<"Q", "Z">> >>,
     rows   |-> << <<1, 0, 0, 0>> >>]

\* A file pd.read_csv cannot parse (empty, for one)
Unparseable == [parses |-> FALSE, header |-> <<>>, rows |-> <<>>]

ContentPool == { TblPlain, TblPadded, TblMissing, Unparseable }

Directories ==
    UNION { [D -> ContentPool] :
            D \in { S \in SUBSET FilePool : Cardinality(S) <= MaxFiles } }

-----------------------------------------------------------------------------
(* Node data loader *)

\* A slip: the glob pattern written "node[0-9]*.csv"
GlobNodeCsv_digit(f) ==
    /\ Len(f) >= Len(S_node) + 1 + Len(S_csv)
    /\ StartsWith(f, S_node)
    /\ IsDigit(f[5])
    /\ EndsWith(f, S_csv)

\* glob "node*.csv" on the base name (case-sensitive)
GlobNodeCsv(f) ==
    /\ Len(f) >= Len(S_node) + Len(S_csv)
    /\ StartsWith(f, S_node)
    /\ EndsWith(f, S_csv)

\* pd.read_csv followed by the strip of the column names (lines 213-214)
RECURSIVE StripAll(_)
StripAll(names) ==
    IF names = <<>> THEN <<>> ELSE <<Strip(Head(names))>> \o StripAll(Tail(names))

ReadCsv(content) == [columns |-> StripAll(content.header), rows |-> content.rows]

\* Lines 207-216: one record per file, named by the base name without extension
RECURSIVE LoadAll(_, _)
LoadAll(dir, files) ==
    IF files = <<>> THEN <<>>
    ELSE << [name |-> SplitextRoot(Head(files)), df |-> ReadCsv(dir[Head(files)])] >>
         \o LoadAll(dir, Tail(files))

\* A slip: no FileNotFoundError for an empty file list
load_node_files_noraise(dir) ==
    LET files == Sorted({ f \in DOMAIN dir : GlobNodeCsv(f) })
    IN  IF \E i \in 1..Len(files) : ~dir[files[i]].parses
        THEN [raised |-> "ParserError", node_data |-> <<>>]
        ELSE [raised |-> None, node_data |-> LoadAll(dir, files)]

load_node_files(dir) ==
    LET files == Sorted({ f \in DOMAIN dir : GlobNodeCsv(f) })
    IN  IF files = <<>>
        THEN [raised |-> "FileNotFoundError", node_data |-> <<>>]
        ELSE IF \E i \in 1..Len(files) : ~dir[files[i]].parses
        THEN [raised |-> "ParserError", node_data |-> <<>>]
        ELSE [raised |-> None, node_data |-> LoadAll(dir, files)]

-----------------------------------------------------------------------------
(* Heading aggregator *)

n_samples == 100

quat_cols == << Col("w"), Col("x"), Col("y"), Col("z") >>

HasColumn(df, col) == \E i \in 1..Len(df.columns) : df.columns[i] = col

\* all(col in df.columns for col in quat_cols)
HasQuatCols(df) == \A k \in 1..4 : HasColumn(df, quat_cols[k])

ColumnIndex(df, col) ==
    CHOOSE i \in 1..Len(df.columns) :
        df.columns[i] = col /\ \A j \in 1..(i - 1) : df.columns[j] # col

\* df[quat_cols].to_numpy()
RECURSIVE SelectRows(_, _)
SelectRows(rows, cols) ==
    IF rows = <<>> THEN <<>>
    ELSE << << Head(rows)[cols[1]], Head(rows)[cols[2]],
               Head(rows)[cols[3]], Head(rows)[cols[4]] >> >>
         \o SelectRows(Tail(rows), cols)

QuatRows(df) ==
    SelectRows(df.rows, << ColumnIndex(df, quat_cols[1]), ColumnIndex(df, quat_cols[2]),
                           ColumnIndex(df, quat_cols[3]), ColumnIndex(df, quat_cols[4]) >>)

Min(a, b) == IF a < b THEN a ELSE b

\* quaternions[:min(n_samples, len(quaternions))]
FirstSamples(quaternions) ==
    SubSeq(quaternions, 1, Min(n_samples, Len(quaternions)))

SumSq(m) ==
    LET f == Flat(m)
    IN  f[1]*f[1] + f[2]*f[2] + f[3]*f[3] + f[4]*f[4] + f[5]*f[5]
        + f[6]*f[6] + f[7]*f[7] + f[8]*f[8] + f[9]*f[9]

\* np.linalg.norm(A - B, 'fro') > 0.01, squared on both sides
FrobeniusAbove001(A, B) ==
    LET a == Scale(A.num, B.den)
        b == Scale(B.num, A.den)
        diff == << << a[1][1] - b[1][1], a[1][2] - b[1][2], a[1][3] - b[1][3] >>,
                   << a[2][1] - b[2][1], a[2][2] - b[2][2], a[2][3] - b[2][3] >>,
                   << a[3][1] - b[3][1], a[3][2] - b[3][2], a[3][3] - b[3][3] >> >>
    IN  10000 * SumSq(diff) > (A.den * B.den) * (A.den * B.den)

DegreesOf(rpy) == << Degrees(rpy[1]), Degrees(rpy[2]), Degrees(rpy[3]) >>

\* dict[key] = value
DictSet(d, key, value) ==
    [k \in (DOMAIN d) \cup {key} |-> IF k = key THEN value ELSE d[k]]

EmptyDict == <<>>

-----------------------------------------------------------------------------
(* Visualization *)

\* A slip: the upper end of the range excluded (node_num < 12)
CombinedFilterAccepts_exclusive(node_name) ==
    /\ StartsWith(node_name, S_node)
    /\ LET parsed == ParseInt(SplitFirst(SubSeq(node_name, 5, Len(node_name)), "_"))
       IN  parsed.ok /\ 3 <= parsed.val /\ parsed.val < 12

\* Lines 334-344: the test that keeps a node for the combined figure
CombinedFilterAccepts(node_name) ==
    /\ StartsWith(node_name, S_node)
    /\ LET parsed == ParseInt(SplitFirst(SubSeq(node_name, 5, Len(node_name)), "_"))
       IN  parsed.ok /\ 3 <= parsed.val /\ parsed.val <= 12

\* filtered_rotations, as its key set
FilteredNodes(rotations) ==
    { n \in DOMAIN rotations : CombinedFilterAccepts(n) }

CombinedImage == "mean_headings_3d_combined_node3_to_12.png"

\* node_name.split('_')[0]
GroupPrefix(node_name) == SplitFirst(node_name, "_")

group_nodes_by_prefix(rotations) ==
    [p \in { GroupPrefix(n) : n \in DOMAIN rotations } |->
        [n \in { m \in DOMAIN rotations : GroupPrefix(m) = p } |-> rotations[n]]]

\* f"mean_headings_3d_{group_name}.png"
GroupImage(group_name) == << "mean_headings_3d_", group_name, ".png" >>

\* The files plot_mean_frames_3d_grouped saves, one per group.  main() never
\* calls this function.
plot_mean_frames_3d_grouped_images(rotations) ==
    { GroupImage(g) : g \in DOMAIN group_nodes_by_prefix(rotations) }

-----------------------------------------------------------------------------
(* main() *)

InitMain ==
    /\ pc = "start"
    /\ disk \in Directories
    /\ node_data = <<>> /\ idx = 0
    /\ mean_rotations = EmptyDict /\ angles_data = EmptyDict
    /\ console = << [tag |-> "banner"] >>
    /\ plots_entered = {} /\ combined_nodes = {} /\ images = {}
    /\ rpc = "idle" /\ rq = <<0, 0, 0, 0>> /\ rR = None /\ rExt = None
    /\ rInt = None /\ rRec = None
    /\ mpc = "idle" /\ mqs = <<>> /\ mR = None

\* Lines 549-554: the loader, its FileNotFoundError caught, any other
\* exception of the loader left to end the process.
MainLoad ==
    /\ pc = "start"
    /\ LET r == load_node_files(disk)
       IN  IF r.raised = "FileNotFoundError"
           THEN /\ pc' = "abort_no_files"
                /\ console' = Append(console, [tag |-> "error_no_files"])
                /\ UNCHANGED <<node_data, idx>>
           ELSE IF r.raised = "ParserError"
           THEN /\ pc' = "crashed"
                /\ console' = Append(console, [tag |-> "found_files"])
                /\ UNCHANGED <<node_data, idx>>
           ELSE /\ pc' = "aggregate"
                /\ console' = Append(console, [tag |-> "found_files"])
                /\ node_data' = r.node_data
                /\ idx' = 1
    /\ UNCHANGED <<disk, mean_rotations, angles_data, plots_entered,
                   combined_nodes, images, rotVars, meanVars>>

\* A slip: break instead of continue at a node without quaternion columns
AggregateNode_break ==
    /\ pc = "aggregate"
    /\ idx <= Len(node_data)
    /\ LET node_name == node_data[idx].name
           df == node_data[idx].df
       IN  IF ~HasQuatCols(df)
           THEN /\ console' = Append(console, [tag |-> "skipped", node |-> node_name])
                /\ idx' = Len(node_data) + 1
                /\ UNCHANGED <<mean_rotations, angles_data>>
           ELSE LET R_mean == compute_mean_rotation(FirstSamples(QuatRows(df)))
                    ext == rotation_matrix_to_rpy_extrinsic(R_mean)
                    int == rotation_matrix_to_rpy_intrinsic(R_mean)
                IN  /\ mean_rotations' = DictSet(mean_rotations, node_name, R_mean)
                    /\ angles_data' = DictSet(angles_data, node_name,
                           [extrinsic |-> DegreesOf(ext), intrinsic |-> DegreesOf(int)])
                    /\ console' = Append(console, [tag |-> "computed", node |-> node_name])
                    /\ idx' = idx + 1
    /\ UNCHANGED <<pc, disk, node_data, plots_entered, combined_nodes, images,
                   rotVars, meanVars>>

\* One iteration of the loop of compute_mean_heading_per_node (lines 237-295)
AggregateNode ==
    /\ pc = "aggregate"
    /\ idx <= Len(node_data)
    /\ LET node_name == node_data[idx].name
           df == node_data[idx].df
       IN  IF ~HasQuatCols(df)
           THEN /\ console' = Append(console, [tag |-> "skipped", node |-> node_name])
                /\ UNCHANGED <<mean_rotations, angles_data>>
           ELSE LET quaternions == QuatRows(df)
                    subset == FirstSamples(quaternions)
                    R_mean == compute_mean_rotation(subset)
                    ext == rotation_matrix_to_rpy_extrinsic(R_mean)
                    int == rotation_matrix_to_rpy_intrinsic(R_mean)
                    R_ext == rpy_to_rotation_matrix(ext[1], ext[2], ext[3])
                IN  /\ mean_rotations' = DictSet(mean_rotations, node_name, R_mean)
                    /\ angles_data' = DictSet(angles_data, node_name,
                           [extrinsic |-> DegreesOf(ext), intrinsic |-> DegreesOf(int)])
                    /\ console' = Append(console,
                           [tag |-> "computed", node |-> node_name,
                            taken |-> Len(subset), total |-> Len(quaternions),
                            warning |-> FrobeniusAbove001(R_mean, R_ext)])
    /\ idx' = idx + 1
    /\ UNCHANGED <<pc, disk, node_data, plots_entered, combined_nodes, images,
                   rotVars, meanVars>>

\* A slip: the test of lines 559-561 left out
MainCheck_nocheck ==
    /\ pc = "aggregate"
    /\ idx > Len(node_data)
    /\ pc' = "narrative"
    /\ UNCHANGED <<disk, node_data, idx, mean_rotations, angles_data, console,
                   plots_entered, combined_nodes, images, rotVars, meanVars>>

\* Lines 557-561: the aggregator has returned; main stops when no heading
\* was computed.
MainCheck ==
    /\ pc = "aggregate"
    /\ idx > Len(node_data)
    /\ IF DOMAIN mean_rotations = {}
       THEN /\ pc' = "abort_no_heading"
            /\ console' = Append(console, [tag |-> "error_no_heading"])
       ELSE /\ pc' = "narrative"
            /\ UNCHANGED console
    /\ UNCHANGED <<disk, node_data, idx, mean_rotations, angles_data,
                   plots_entered, combined_nodes, images, rotVars, meanVars>>

\* Lines 563-577: the intrinsic procedure, node by node in sorted order
MainNarrative ==
    /\ pc = "narrative"
    /\ console' = Append(console,
           [tag |-> "narrative",
            steps |-> LET names == Sorted(DOMAIN angles_data)
                      IN  [i \in 1..Len(names) |->
                              <<names[i], angles_data[names[i]].intrinsic>>]])
    /\ pc' = "plot"
    /\ UNCHANGED <<disk, node_data, idx, mean_rotations, angles_data,
                   plots_entered, combined_nodes, images, rotVars, meanVars>>

\* A slip: the early return of lines 346-348 left out, the figure saved
\* whatever the filter kept
MainPlotCombined_noreturn ==
    /\ pc = "plot"
    /\ plots_entered' = plots_entered \cup {"plot_combined_filtered_nodes"}
    /\ combined_nodes' = FilteredNodes(mean_rotations)
    /\ images' = images \cup {CombinedImage}
    /\ console' = console \o << [tag |-> "combined"], [tag |-> "completed"] >>
    /\ pc' = "done"
    /\ UNCHANGED <<disk, node_data, idx, mean_rotations, angles_data,
                   rotVars, meanVars>>

\* Lines 579-584: plot_combined_filtered_nodes (lines 329-442), then the
\* closing banner.
MainPlotCombined ==
    /\ pc = "plot"
    /\ plots_entered' = plots_entered \cup {"plot_combined_filtered_nodes"}
    /\ LET filtered == FilteredNodes(mean_rotations)
       IN  IF filtered = {}
           THEN /\ console' = console \o << [tag |-> "no_node_in_range"],
                                            [tag |-> "completed"] >>
                /\ UNCHANGED <<combined_nodes, images>>
           ELSE /\ combined_nodes' = filtered
                /\ images' = images \cup {CombinedImage}
                /\ console' = console \o << [tag |-> "combined", nodes |-> Sorted(filtered)],
                                            [tag |-> "completed"] >>
    /\ pc' = "done"
    /\ UNCHANGED <<disk, node_data, idx, mean_rotations, angles_data,
                   rotVars, meanVars>>

Next == MainLoad \/ AggregateNode \/ MainCheck \/ MainNarrative \/ MainPlotCombined

Spec == InitMain /\ [][Next]_vars

-----------------------------------------------------------------------------
(* The rotation conversions applied to one quaternion, in the order of     *)
(* lines 255-290: matrix, extrinsic angles, intrinsic angles, extrinsic    *)
(* reconstruction.                                                         *)

\* The quaternions of the 24 axis-aligned rotations (both signs, and the
\* non-unit multiples with components in -1..1), and the zero quaternion.
Signs == {-1, 0, 1}

RotQuatPool ==
    { q \in { <<w, x, y, z>> : w \in Signs, x \in Signs, y \in Signs, z \in Signs } :
        Norm2(q) \in {0, 1, 2, 4} }

IdleMain ==
    /\ pc = "idle" /\ disk = <<>> /\ node_data = <<>> /\ idx = 0
    /\ mean_rotations = <<>> /\ angles_data = <<>> /\ console = <<>>
    /\ plots_entered = {} /\ combined_nodes = {} /\ images = {}

IdleRot ==
    /\ rpc = "idle" /\ rq = ZeroQ /\ rR = None /\ rExt = None
    /\ rInt = None /\ rRec = None

IdleMean == mpc = "idle" /\ mqs = <<>> /\ mR = None

InitRot ==
    /\ IdleMain /\ IdleMean
    /\ rpc = "start" /\ rq \in RotQuatPool
    /\ rR = None /\ rExt = None /\ rInt = None /\ rRec = None

RotMatrix ==
    /\ rpc = "start"
    /\ rR' = quat_to_rotation_matrix(rq)
    /\ rpc' = "matrix"
    /\ UNCHANGED <<rq, rExt, rInt, rRec, mainVars, meanVars>>

RotExtrinsic ==
    /\ rpc = "matrix"
    /\ rExt' = rotation_matrix_to_rpy_extrinsic(rR)
    /\ rpc' = "ext"
    /\ UNCHANGED <<rq, rR, rInt, rRec, mainVars, meanVars>>

RotIntrinsic ==
    /\ rpc = "ext"
    /\ rInt' = rotation_matrix_to_rpy_intrinsic(rR)
    /\ rpc' = "int"
    /\ UNCHANGED <<rq, rR, rExt, rRec, mainVars, meanVars>>

RotReconstruct ==
    /\ rpc = "int"
    /\ rRec' = rpy_to_rotation_matrix(rExt[1], rExt[2], rExt[3])
    /\ rpc' = "done"
    /\ UNCHANGED <<rq, rR, rExt, rInt, mainVars, meanVars>>

NextRot == RotMatrix \/ RotExtrinsic \/ RotIntrinsic \/ RotReconstruct

SpecRot == InitRot /\ [][NextRot]_vars

-----------------------------------------------------------------------------
(* compute_mean_rotation applied to one batch of quaternions *)

MaxLen == 3

\* Samples with an integer norm: zero, unit, non-unit, and opposite pairs.
QuatPool ==
    { ZeroQ,
      <<1, 0, 0, 0>>, <<-1, 0, 0, 0>>, <<0, 2, 0, 0>>, <<0, -2, 0, 0>>,
      <<1, 1, 1, 1>>, <<-1, -1, -1, -1>>,
      <<1, 2, 2, 4>>, <<-1, -2, -2, -4>>, <<0, 3, 4, 0>> }

Batches == UNION { [1..n -> QuatPool] : n \in 0..MaxLen }

InitMean ==
    /\ IdleMain /\ IdleRot
    /\ mpc = "start" /\ mqs \in Batches /\ mR = None

MeanCompute ==
    /\ mpc = "start"
    /\ mR' = compute_mean_rotation(mqs)
    /\ mpc' = "done"
    /\ UNCHANGED <<mqs, mainVars, rotVars>>

NextMean == MeanCompute

SpecMean == InitMean /\ [][NextMean]_vars

-----------------------------------------------------------------------------
(* Properties of the run of main() (Spec) *)

RangeOf(seq) == { seq[i] : i \in 1..Len(seq) }

ConsoleTags == { console[i].tag : i \in 1..Len(console) }

\* No file of the directory matches node*.csv
NoMatchingFile == \A f \in DOMAIN disk : ~GlobNodeCsv(f)

\* C1: when no file of the input directory matches the node-file pattern,
\* the run aborts with a diagnostic right after the loader: in every later
\* state no node is aggregated, no plotting function is entered and no image
\* is written.
C1_NoFilesAbort ==
    (NoMatchingFile /\ pc # "start") =>
        /\ pc = "abort_no_files"
        /\ console[Len(console)].tag = "error_no_files"
        /\ node_data = <<>> /\ idx = 0
        /\ DOMAIN mean_rotations = {} /\ DOMAIN angles_data = {}
        /\ plots_entered = {} /\ combined_nodes = {} /\ images = {}

C1_Witness ==
    /\ pc = "abort_no_files"
    /\ Cardinality(DOMAIN disk) = 2
    /\ images = {}

\* C2: when files are loaded but every node was skipped, the run aborts
\* after the per-node report: the intrinsic narrative is not printed, no
\* plot is produced and no image is written.
C2_NoHeadingAbort ==
    (/\ Len(node_data) > 0
     /\ idx > Len(node_data)
     /\ DOMAIN mean_rotations = {}
     /\ pc # "aggregate") =>
        /\ pc = "abort_no_heading"
        /\ console[Len(console)].tag = "error_no_heading"
        /\ \A i \in 1..Len(node_data) :
              \E k \in 1..Len(console) :
                  console[k] = [tag |-> "skipped", node |-> node_data[i].name]
        /\ "narrative" \notin ConsoleTags
        /\ plots_entered = {} /\ combined_nodes = {} /\ images = {}

C2_Witness ==
    /\ pc = "abort_no_heading"
    /\ Len(node_data) = 2
    /\ images = {}

\* The node has the four columns qw, qx, qy, qz
HasAllFour(df) ==
    { <<"q", "w">>, <<"q", "x">>, <<"q", "y">>, <<"q", "z">> } \subseteq RangeOf(df.columns)

\* The names of the nodes with all four columns among the first n loaded
NodesWithAllFour(n) ==
    { node_data[i].name : i \in { j \in 1..n : HasAllFour(node_data[j].df) } }

\* C3: compute_mean_heading_per_node skips exactly the nodes lacking one of
\* qw, qx, qy, qz and processes every other node: after each iteration, and
\* on return, the keys of the mean-rotation mapping and of the angle mapping
\* are the nodes visited so far that have all four columns, whatever the
\* order of good and bad nodes.
C3_SkipExactlyIncomplete ==
    (pc \in {"aggregate", "abort_no_heading", "narrative", "plot", "done"}) =>
        /\ DOMAIN mean_rotations = NodesWithAllFour(idx - 1)
        /\ DOMAIN angles_data = NodesWithAllFour(idx - 1)

C3_Witness ==
    /\ pc = "narrative"
    /\ Len(node_data) = 3
    /\ HasAllFour(node_data[1].df)
    /\ ~HasAllFour(node_data[2].df)
    /\ HasAllFour(node_data[3].df)
    /\ DOMAIN mean_rotations = {node_data[1].name, node_data[3].name}

\* The node name starts with "node" and the text between "node" and the
\* first underscore (or the end) parses to an integer of 3..12
NodeNumberInRange(n) ==
    /\ StartsWith(n, S_node)
    /\ \E v \in 3..12 :
          ParseInt(SplitFirst(SubSeq(n, 5, Len(n)), "_")) = [ok |-> TRUE, val |-> v]

\* C4 as stated: a run that computes at least one mean rotation has written,
\* when it completes, one image per prefix group of the processed nodes and
\* the combined image.
C4_GroupImagesWritten ==
    (pc = "done" /\ DOMAIN mean_rotations # {}) =>
        /\ plot_mean_frames_3d_grouped_images(mean_rotations) \subseteq images
        /\ CombinedImage \in images

\* C4 as amended: a run that computes at least one mean rotation writes no
\* per-group image; it enters plot_combined_filtered_nodes only, and when it
\* completes it has written the combined image exactly when some processed
\* node is in the range 3..12, and nothing else.
C4_OnlyCombinedImage ==
    /\ images \subseteq {CombinedImage}
    /\ plots_entered \subseteq {"plot_combined_filtered_nodes"}
    /\ pc = "done" =>
          /\ DOMAIN mean_rotations # {}
          /\ plots_entered = {"plot_combined_filtered_nodes"}
          /\ images = IF \E n \in DOMAIN mean_rotations : NodeNumberInRange(n)
                      THEN {CombinedImage} ELSE {}

C4_Witness ==
    /\ pc = "done"
    /\ images = {CombinedImage}
    /\ Cardinality(plot_mean_frames_3d_grouped_images(mean_rotations)) = 2
    /\ Cardinality(DOMAIN mean_rotations) = 3

Name(suffix) == S_node \o suffix

\* C9: the combined plot includes a node iff its name starts with "node" and
\* the text between "node" and the first underscore (or the end) parses to
\* an integer of 3..12; node2, node13 and nodeX are left out without an
\* error, node3, node10_1 and node12_2 are included.
C9_CombinedFilter ==
    pc = "done" =>
        /\ \A n \in DOMAIN mean_rotations :
              n \in combined_nodes <=> NodeNumberInRange(n)
        /\ combined_nodes \subseteq DOMAIN mean_rotations
        /\ combined_nodes \cap { Name(<<"2">>), Name(<<"1", "3">>), Name(<<"X">>) } = {}
        /\ \A n \in { Name(<<"3">>), Name(<<"1", "0", "_", "1">>),
                      Name(<<"1", "2", "_", "2">>) } :
              n \in DOMAIN mean_rotations => n \in combined_nodes

C9_Witness ==
    /\ pc = "done"
    /\ DOMAIN mean_rotations =
          { Name(<<"1", "2", "_", "2">>), Name(<<"1", "3">>), Name(<<"X">>) }
    /\ combined_nodes = { Name(<<"1", "2", "_", "2">>) }

\* The directory of C10
C10Directory ==
    { Name(<<"3">>) \o S_csv, Name(<<"1", "0", "_", "1">>) \o S_csv,
      Name(<<"X">>) \o S_csv }

NodeNames == [i \in 1..Len(node_data) |-> node_data[i].name]

\* C10 as stated: with node3.csv, node10_1.csv and nodeX.csv in the
\* directory, the loader returns exactly two records, node3 and node10_1.
C10_TwoRecords ==
    (DOMAIN disk = C10Directory /\ pc = "aggregate") =>
        /\ Len(node_data) = 2
        /\ RangeOf(NodeNames) = { Name(<<"3">>), Name(<<"1", "0", "_", "1">>) }

\* C10 as amended: all three names match node*.csv; when the loader returns
\* it has made exactly one record per file, named by the base name without
\* extension, in sorted file order: node10_1, node3, nodeX.  In any
\* directory the records are those of the files matching node*.csv.
C10_ThreeRecords ==
    (pc \notin {"start", "crashed", "abort_no_files"}) =>
        /\ Len(node_data) = Cardinality({ f \in DOMAIN disk : GlobNodeCsv(f) })
        /\ { n \o S_csv : n \in RangeOf(NodeNames) }
              = { f \in DOMAIN disk : StartsWith(f, S_node) /\ EndsWith(f, S_csv) }
        /\ DOMAIN disk = C10Directory =>
              NodeNames = << Name(<<"1", "0", "_", "1">>), Name(<<"3">>), Name(<<"X">>) >>

C10_Witness ==
    /\ DOMAIN disk = C10Directory
    /\ pc = "aggregate"
    /\ Len(node_data) = 3

-----------------------------------------------------------------------------
(* Properties of the rotation conversions (SpecRot) *)

\* |R[2, 0]| < 1
NonGimbal(R) == Abs(At(R, 2, 0)) < R.den

\* C5: for every rotation matrix R with |R[2,0]| < 1, rpy_to_rotation_matrix
\* applied to the angles of rotation_matrix_to_rpy_extrinsic(R) gives R
\* again (exactly, over the axis-aligned rotations with R[2,0] = 0).
C5_ExtrinsicRoundTrip ==
    (rpc = "done" /\ NonGimbal(rR)) => rRec = rR

C5_Witness ==
    /\ rpc = "done" /\ NonGimbal(rR)
    /\ rExt[1] # 0 /\ rExt[3] # 0
    /\ rRec = rR

\* The intrinsic sequence roll about X, pitch about the new Y, yaw about the
\* new Z: R = Rx(roll) Ry(pitch) Rz(yaw).
IntrinsicCompose(roll, pitch, yaw) ==
    Reduce(MatMul(MatMul(RxOf(roll), RyOf(pitch)), RzOf(yaw)), 1)

\* C6: for every rotation matrix R not at gimbal lock, composing
\* Rx(roll) Ry(pitch) Rz(yaw) from the angles returned by
\* rotation_matrix_to_rpy_intrinsic(R) gives R again.
C6_IntrinsicComposition ==
    (rpc = "done" /\ NonGimbal(rR)) =>
        IntrinsicCompose(rInt[1], rInt[2], rInt[3]) = rR

-----------------------------------------------------------------------------
(* Properties of compute_mean_rotation (SpecMean) *)

\* A non-empty batch made only of copies of one non-zero q and of -q
CopiesOfOne(qs) ==
    /\ Len(qs) > 0
    /\ Norm2(qs[1]) > 0
    /\ \A i \in 1..Len(qs) : qs[i] \in {qs[1], NegQ(qs[1])}

\* C7: on a non-empty batch of copies of a non-degenerate q and of -q, in
\* any order and proportion, compute_mean_rotation returns the matrix of
\* quat_to_rotation_matrix(q).
C7_SignAlignedMean ==
    (mpc = "done" /\ CopiesOfOne(mqs)) => mR = quat_to_rotation_matrix(mqs[1])

C7_Witness ==
    /\ mpc = "done" /\ Len(mqs) = 3
    /\ mqs[1] = <<-1, -2, -2, -4>>
    /\ mqs[2] = <<1, 2, 2, 4>>
    /\ mqs[3] = <<1, 2, 2, 4>>
    /\ mR = quat_to_rotation_matrix(<<1, 2, 2, 4>>)
    /\ mR # Eye3

\* The mean of the aligned samples is (near) zero
MeanCancels(qs) == Norm2(MeanNumerator(AlignedSamples(qs))) = 0

\* C8: for every batch (empty, with zero-norm samples, non-unit, cancelling)
\* compute_mean_rotation returns a proper rotation matrix, orthonormal with
\* determinant +1, and the identity when the batch is empty or the mean
\* quaternion cancels.
C8_AlwaysProperRotation ==
    mpc = "done" =>
        /\ IsProperRotation(mR)
        /\ (Len(mqs) = 0 \/ MeanCancels(mqs)) => mR = Eye3

C8_Witness ==
    /\ mpc = "done" /\ Len(mqs) = 3
    /\ mqs[1] = ZeroQ
    /\ mqs[2] = <<1, 2, 2, 4>>
    /\ mqs[3] = <<-1, -2, -2, -4>>
    /\ MeanCancels(mqs)
    /\ mR = Eye3

-----------------------------------------------------------------------------
(* Gimbal lock and the two conventions (SpecRot) *)

\* |R[2, 0]| >= 1
GimbalLock(R) == Abs(At(R, 2, 0)) >= R.den

\* C11: at exact gimbal lock, for pitch = +90 and for pitch = -90 degrees,
\* rotation_matrix_to_rpy_extrinsic returns roll = 0, pitch = +/-90 degrees
\* with the sign of -R[2,0], and a yaw that absorbs the combined rotation:
\* rpy_to_rotation_matrix(0, pitch, yaw) equals R.
C11_GimbalLockRoundTrip ==
    (rpc = "done" /\ GimbalLock(rR)) =>
        /\ rExt[1] = 0
        /\ rExt[2] = (IF -At(rR, 2, 0) > 0 THEN 1 ELSE -1)
        /\ rpy_to_rotation_matrix(0, rExt[2], rExt[3]) = rR

\* Two angles equal modulo a full turn
SameAngle(a, b) == (a - b) % 4 = 0

====
